---- MODULE Spec2Model ----
\* Pixel buffers, regions of interest and compositing of orbital-core
\* (src/orbital-core/src/image.rs).
\*
\* A Color is a packed u32.  It is kept here as the record
\*     [a |-> bits 24..31, rgb |-> bits 0..23]
\* so that every shift, mask and packed addition of the source can be computed
\* on numbers below 2^31.  A pixel array is a sequence of Colors; the source's
\* 0-based index j is position j + 1 of the sequence.
EXTENDS Integers, Sequences, FiniteSets, TLC

VARIABLES image, pc, last, iter, yielded

vars == <<image, pc, last, iter, yielded>>

\* ---------------------------------------------------------------- bounds

MaxW == 2
MaxH == 2

\* ---------------------------------------------------------------- Color

Color(a, r, g, b) == [a |-> a, rgb |-> r * 65536 + g * 256 + b]

\* (data >> 24) & 0xFF
Alpha(c) == c.a
\* (data >> 16) & 0xFF
Red(c) == (c.rgb \div 65536) % 256
\* (data >> 8) & 0xFF
Green(c) == (c.rgb \div 256) % 256
\* data & 0xFF
Blue(c) == c.rgb % 256

\* (r << 16) | (g << 8) | b, on u32 operands
Pack(r, g, b) == r * 65536 + g * 256 + b

\* Color::rgb(0, 0, 0), the fill of Image::new
Black == Color(255, 0, 0, 0)

\* the bytes memset(ptr, 0, size_aligned) leaves
Zero == Color(0, 0, 0, 0)


\* mutants of BlendPixel
\* the alpha >= 255 branch lost: an opaque pixel goes through the arithmetic
BlendPixel_NoOpaque(old, new) ==
    LET alpha == Alpha(new) IN
    IF alpha > 0 THEN
        LET n_alpha == 255 - alpha
            sum == Pack((Red(old) * n_alpha) \div 256, (Green(old) * n_alpha) \div 256,
                        (Blue(old) * n_alpha) \div 256)
                   + Pack((Red(new) * alpha) \div 256, (Green(new) * alpha) \div 256,
                          (Blue(new) * alpha) \div 256)
        IN  [a |-> (sum \div 16777216) % 256, rgb |-> sum % 16777216]
    ELSE old

\* the alpha > 0 test lost: a transparent pixel goes through the arithmetic
BlendPixel_NoClear(old, new) ==
    LET alpha == Alpha(new) IN
    IF alpha >= 255 THEN new
    ELSE
        LET n_alpha == 255 - alpha
            sum == Pack((Red(old) * n_alpha) \div 256, (Green(old) * n_alpha) \div 256,
                        (Blue(old) * n_alpha) \div 256)
                   + Pack((Red(new) * alpha) \div 256, (Green(new) * alpha) \div 256,
                          (Blue(new) * alpha) \div 256)
        IN  [a |-> (sum \div 16777216) % 256, rgb |-> sum % 16777216]

\* n_alpha = 256 - alpha
BlendPixel_Alpha256(old, new) ==
    LET alpha == Alpha(new) IN
    IF alpha >= 255 THEN new
    ELSE IF alpha > 0 THEN
        LET n_alpha == 256 - alpha
            sum == Pack((Red(old) * n_alpha) \div 256, (Green(old) * n_alpha) \div 256,
                        (Blue(old) * n_alpha) \div 256)
                   + Pack((Red(new) * alpha) \div 256, (Green(new) * alpha) \div 256,
                          (Blue(new) * alpha) \div 256)
        IN  [a |-> (sum \div 16777216) % 256, rgb |-> sum % 16777216]
    ELSE old

\* the scaled channels rounded up instead of down
BlendPixel_RoundUp(old, new) ==
    LET alpha == Alpha(new) IN
    IF alpha >= 255 THEN new
    ELSE IF alpha > 0 THEN
        LET n_alpha == 255 - alpha
            sum == Pack((Red(old) * n_alpha + 255) \div 256,
                        (Green(old) * n_alpha + 255) \div 256,
                        (Blue(old) * n_alpha + 255) \div 256)
                   + Pack((Red(new) * alpha + 255) \div 256,
                          (Green(new) * alpha + 255) \div 256,
                          (Blue(new) * alpha + 255) \div 256)
        IN  [a |-> (sum \div 16777216) % 256, rgb |-> sum % 16777216]
    ELSE old

\* ImageRoi::blend, the body of the pixel loop: the value of old.data after it.
\* The last branch adds two packed u32 values; both are below 2^24, so the
\* sum is below 2^32 and is split back into its alpha byte and its low 24 bits.
BlendPixel(old, new) ==
    LET alpha == Alpha(new) IN
    IF alpha >= 255 THEN new
    ELSE IF alpha > 0 THEN
        LET n_r == (Red(new) * alpha) \div 256
            n_g == (Green(new) * alpha) \div 256
            n_b == (Blue(new) * alpha) \div 256
            n_alpha == 255 - alpha
            o_r == (Red(old) * n_alpha) \div 256
            o_g == (Green(old) * n_alpha) \div 256
            o_b == (Blue(old) * n_alpha) \div 256
            sum == Pack(o_r, o_g, o_b) + Pack(n_r, n_g, n_b)
        IN  [a |-> (sum \div 16777216) % 256, rgb |-> sum % 16777216]
    ELSE old

\* ---------------------------------------------------------------- Rect, ROI

Rect(left, top, width, height) ==
    [left |-> left, top |-> top, width |-> width, height |-> height]

Min(a, b) == IF a < b THEN a ELSE b

\* mutants of RowStart
\* the rect's width taken for the stride
RowStart_RectStride(rect, w, i) == (rect.top + i) * rect.width + rect.left

\* the rect's left edge forgotten
RowStart_NoLeft(rect, w, i) == (rect.top + i) * w

\* let start = (self.rect.top() + self.i) * self.w + self.rect.left();
RowStart(rect, w, i) == (rect.top + i) * w + rect.left

\* let end = start + self.rect.width();
RowEnd(rect, w, i) == RowStart(rect, w, i) + rect.width

\* data[start as usize .. end as usize] is in range.  A negative i32 cast to
\* usize is above every length, so a negative start or end always panics.
SliceOk(len, start, end) == start >= 0 /\ start <= end /\ end <= len

\* ---------------------------------------------------------------- buffers

\* Image::from_data: no check relates data.len() to width and height
Image_from_data(width, height, data) ==
    [kind |-> "Image", w |-> width, h |-> height, data |-> data]

\* Image::from_color: vec![color; width as usize * height as usize]
Image_from_color(width, height, color) ==
    Image_from_data(width, height, [j \in 1..(width * height) |-> color])

\* Image::new
Image_new(width, height) == Image_from_color(width, height, Black)

\* ImageRef::from_data
ImageRef_from_data(width, height, data) ==
    [kind |-> "ImageRef", w |-> width, h |-> height, data |-> data]

\* mem::size_of::<Color>()
SizeOfColor == 4

\* mutant of SizeAligned: the size not rounded up to the alignment
SizeAligned_NoRound(width, height, align) == width * height * SizeOfColor

\* ImageAligned::new, size_aligned
SizeAligned(width, height, align) ==
    LET size == width * height
        size_bytes == size * SizeOfColor
        size_alignments == (size_bytes + align - 1) \div align
    IN  size_alignments * align

\* ImageAligned::new, when memalign returns memory
ImageAligned_new(width, height, align) ==
    [kind |-> "ImageAligned", w |-> width, h |-> height,
     data |-> [j \in 1..(SizeAligned(width, height, align) \div SizeOfColor) |-> Zero]]

\* Image::roi, ImageRef::roi, ImageAligned::roi
Roi(img, rect) == [rect |-> rect, w |-> img.w, data |-> img.data]

NoImage == [kind |-> "none", w |-> 0, h |-> 0, data |-> <<>>]
NoRect == Rect(0, 0, 0, 0)
NoRoi == [rect |-> NoRect, w |-> 0, data |-> <<>>]

\* ---------------------------------------------------------------- compositing

\* blend: for (old, new) in self_row.iter_mut().zip(other_row.iter())
BlendRow(data, ds, de, odata, ss, se) ==
    LET n == Min(de - ds, se - ss) IN
    [j \in 1..Len(data) |->
        IF j > ds /\ j <= ds + n
        THEN BlendPixel(data[j], odata[ss + (j - ds)])
        ELSE data[j]]

\* mutants of BlitRow
\* one pixel short
BlitRow_Short(data, ds, de, odata, ss, se) ==
    LET len == Min(de - ds, se - ss) - 1 IN
    [j \in 1..Len(data) |->
        IF j > ds /\ j <= ds + len
        THEN odata[ss + (j - ds)]
        ELSE data[j]]

\* the copy reads from the head of the source array, not from the source row
BlitRow_NoOffset(data, ds, de, odata, ss, se) ==
    LET len == Min(de - ds, se - ss) IN
    [j \in 1..Len(data) |->
        IF j > ds /\ j <= ds + len
        THEN odata[j - ds]
        ELSE data[j]]

\* blit: ptr::copy(other_row.as_ptr(), self_row.as_mut_ptr(), len), a memmove:
\* every source pixel is read as it was before the row's copy
BlitRow(data, ds, de, odata, ss, se) ==
    LET len == Min(de - ds, se - ss) IN
    [j \in 1..Len(data) |->
        IF j > ds /\ j <= ds + len
        THEN odata[ss + (j - ds)]
        ELSE data[j]]

\* The row loop of blend and blit, self.rows_mut().zip(other.rows()), from row
\* i on.  Zip asks rows_mut() first and rows() only when that yielded a row; a
\* slice out of range panics and leaves the rows already written.  aliased:
\* other borrows the very array self writes.
RECURSIVE Composite(_, _, _, _, _, _)
Composite(op, self, other, aliased, i, data) ==
    IF ~(i < self.rect.height) THEN [data |-> data, panicked |-> FALSE]
    ELSE
        LET ds == RowStart(self.rect, self.w, i)
            de == RowEnd(self.rect, self.w, i)
            odata == IF aliased THEN data ELSE other.data
            ss == RowStart(other.rect, other.w, i)
            se == RowEnd(other.rect, other.w, i)
        IN  IF ~SliceOk(Len(data), ds, de) THEN [data |-> data, panicked |-> TRUE]
            ELSE IF ~(i < other.rect.height) THEN [data |-> data, panicked |-> FALSE]
            ELSE IF ~SliceOk(Len(odata), ss, se) THEN [data |-> data, panicked |-> TRUE]
            ELSE Composite(op, self, other, aliased, i + 1,
                           IF op = "blend"
                           THEN BlendRow(data, ds, de, odata, ss, se)
                           ELSE BlitRow(data, ds, de, odata, ss, se))

\* ---------------------------------------------------------------- inputs

Widths == 0..MaxW
Heights == 0..MaxH

\* fill colours handed to Image::from_color
FillColors == {Color(128, 255, 255, 255), Color(255, 16, 32, 48)}

\* pixel arrays handed to from_data: position j holds a colour of its own,
\* every second one not opaque
DstData(len) ==
    [j \in 1..len |-> Color(IF j % 2 = 1 THEN 255 ELSE 64, 16, 32, 48 + j)]

\* the length of the array a caller passes for a width x height buffer, as
\* the constructors' documentation asks: exact
ExactLens(width, height) == {width * height}

\* the lengths from_data accepts: it checks none.  Exact, one short, one long
AnyLens(width, height) ==
    {n \in {width * height - 1, width * height, width * height + 1} : n >= 0}

\* alignments handed to ImageAligned::new
Aligns == {1, 2, 3, 4, 8, 16}

\* source pixel arrays: all opaque, all transparent, mixed
OpaqueData(len) == [j \in 1..len |-> Color(255, 200 + j, 100, j)]
ClearData(len) == [j \in 1..len |-> Color(0, 200 + j, 100, j)]
MixedData(len) ==
    [j \in 1..len |->
        IF j % 3 = 1 THEN Color(128, 255, 255, 255)
        ELSE IF j % 3 = 2 THEN Color(0, 7, 8, 9)
        ELSE Color(255, 1, 2, j)]

SourceImages ==
    {ImageRef_from_data(MaxW, MaxH, d) :
        d \in {OpaqueData(MaxW * MaxH), ClearData(MaxW * MaxH), MixedData(MaxW * MaxH)}}

\* rects handed to roi() of the destination
DstRects ==
    {Rect(l, t, w, h) : l \in 0..1, t \in 0..1, w \in Widths, h \in Heights}

\* rects handed to roi() of the source
SrcRects ==
    {Rect(l, t, w, h) : l \in 0..1, t \in 0..1, w \in 1..MaxW, h \in 1..MaxH}

SourceRois == {Roi(img, r) : img \in SourceImages, r \in SrcRects}

\* ---------------------------------------------------------------- state

\* what the last call was, with its arguments and the pixel array before it
Call(op, rect, other, pre, align) ==
    [op |-> op, rect |-> rect, other |-> other, pre |-> pre, align |-> align]

NoIter == [state |-> "idle", mutable |-> FALSE, rect |-> NoRect, w |-> 0, i |-> 0]

Init ==
    /\ image = NoImage
    /\ pc = "start"
    /\ last = Call("none", NoRect, NoRoi, <<>>, 0)
    /\ iter = NoIter
    /\ yielded = <<>>

Constructed(img, op, align) ==
    /\ pc = "start"
    /\ image' = img
    /\ pc' = "constructed"
    /\ last' = Call(op, NoRect, NoRoi, <<>>, align)
    /\ UNCHANGED <<iter, yielded>>

CallImageNew(width, height) ==
    Constructed(Image_new(width, height), "Image::new", 0)

CallImageFromColor(width, height, color) ==
    Constructed(Image_from_color(width, height, color), "Image::from_color", 0)

CallImageFromData(width, height, data) ==
    Constructed(Image_from_data(width, height, data), "Image::from_data", 0)

CallImageRefFromData(width, height, data) ==
    Constructed(ImageRef_from_data(width, height, data), "ImageRef::from_data", 0)

\* ImageAligned::new.  memalign may return NULL; memset then writes through
\* NULL and, for a size above 0, the process dies before a buffer exists.
CallImageAlignedNew(width, height, align, allocated) ==
    /\ pc = "start"
    /\ IF allocated \/ SizeAligned(width, height, align) = 0
       THEN /\ image' = ImageAligned_new(width, height, align)
            /\ pc' = "constructed"
       ELSE /\ image' = NoImage
            /\ pc' = "crashed"
    /\ last' = Call("ImageAligned::new", NoRect, NoRoi, <<>>, align)
    /\ UNCHANGED <<iter, yielded>>

\* image.roi(rect).blend(other) and image.roi(rect).blit(other)
Composited(op, rect, other, aliased) ==
    /\ pc = "constructed"
    /\ LET res == Composite(op, Roi(image, rect), other, aliased, 0, image.data) IN
        /\ image' = [image EXCEPT !.data = res.data]
        /\ pc' = IF res.panicked THEN "panicked" ELSE "done"
    /\ UNCHANGED <<iter, yielded>>

Blend(rect, other) ==
    /\ Composited("blend", rect, other, FALSE)
    /\ last' = Call("blend", rect, other, image.data, 0)

Blit(rect, other) ==
    /\ Composited("blit", rect, other, FALSE)
    /\ last' = Call("blit", rect, other, image.data, 0)

\* blit with a source ROI of the destination's own buffer
BlitAliased(rect, orect) ==
    /\ Composited("blit", rect, Roi(image, orect), TRUE)
    /\ last' = Call("blit_aliased", rect, Roi(image, orect), image.data, 0)

\* A buffer is constructed once, then one blend or blit goes into a region of
\* it.  The widths, heights and rects are small: no i32 or usize operation of
\* the source wraps at these sizes.
NewImage == pc = "start" /\ \E w \in Widths, h \in Heights : CallImageNew(w, h)

FromColor ==
    pc = "start" /\ \E w \in Widths, h \in Heights, c \in FillColors :
        CallImageFromColor(w, h, c)

\* from_data handed an array of the documented length
FromData ==
    pc = "start" /\ \E w \in Widths, h \in Heights : \E n \in ExactLens(w, h) :
        CallImageFromData(w, h, DstData(n))

RefFromData ==
    pc = "start" /\ \E w \in Widths, h \in Heights : \E n \in ExactLens(w, h) :
        CallImageRefFromData(w, h, DstData(n))

\* from_data handed an array of any length
FromAnyData ==
    pc = "start" /\ \E w \in Widths, h \in Heights : \E n \in AnyLens(w, h) :
        CallImageFromData(w, h, DstData(n))

RefFromAnyData ==
    pc = "start" /\ \E w \in Widths, h \in Heights : \E n \in AnyLens(w, h) :
        CallImageRefFromData(w, h, DstData(n))

AlignedNew ==
    pc = "start" /\ \E w \in Widths, h \in Heights, a \in Aligns, ok \in BOOLEAN :
        CallImageAlignedNew(w, h, a, ok)

BlendInto == pc = "constructed" /\ \E r \in DstRects, o \in SourceRois : Blend(r, o)

BlitInto == pc = "constructed" /\ \E r \in DstRects, o \in SourceRois : Blit(r, o)

BlitOntoItself == pc = "constructed" /\ \E r \in DstRects, o \in DstRects : BlitAliased(r, o)

Next ==
    \/ NewImage
    \/ FromColor
    \/ FromData
    \/ RefFromData
    \/ AlignedNew
    \/ BlendInto
    \/ BlitInto
    \/ BlitOntoItself

Spec == Init /\ [][Next]_vars

NextAnyData ==
    \/ NewImage
    \/ FromColor
    \/ FromAnyData
    \/ RefFromAnyData
    \/ AlignedNew
    \/ BlendInto
    \/ BlitInto
    \/ BlitOntoItself

SpecAnyData == Init /\ [][NextAnyData]_vars

\* ---------------------------------------------------------------- row iteration

\* rects handed to roi() before rows() or rows_mut()
IterRects ==
    {Rect(l, t, w, h) : l \in -1..1, t \in 0..1, w \in Widths, h \in Heights}

\* buffers the row sequences are taken from
RowImages ==
    {Image_new(w, h) : w \in Widths, h \in Heights}
        \cup {ImageAligned_new(w, h, 16) : w \in Widths, h \in Heights}

InitRows ==
    /\ image \in RowImages
    /\ pc = "constructed"
    /\ last = Call("none", NoRect, NoRoi, <<>>, 0)
    /\ iter = NoIter
    /\ yielded = <<>>

\* image.roi(rect).rows() and image.roi(rect).rows_mut(): a fresh sequence, i: 0
RowsBegin(rect, mutable) ==
    /\ pc = "constructed"
    /\ iter.state \in {"idle", "ended"}
    /\ iter' = [state |-> "running", mutable |-> mutable, rect |-> rect,
                w |-> Roi(image, rect).w, i |-> 0]
    /\ yielded' = <<>>
    /\ UNCHANGED <<image, pc, last>>

\* ImageRoiRows::next and ImageRoiRowsMut::next: the same body
RowsNext ==
    /\ iter.state = "running"
    /\ IF iter.i < iter.rect.height
       THEN LET start == RowStart(iter.rect, iter.w, iter.i)
                end == RowEnd(iter.rect, iter.w, iter.i)
            IN  IF SliceOk(Len(image.data), start, end)
                THEN /\ iter' = [iter EXCEPT !.i = iter.i + 1]
                     /\ yielded' = Append(yielded,
                            [start |-> start, end |-> end,
                             row |-> SubSeq(image.data, start + 1, end)])
                ELSE /\ iter' = [iter EXCEPT !.i = iter.i + 1, !.state = "panicked"]
                     /\ UNCHANGED yielded
       ELSE /\ iter' = [iter EXCEPT !.state = "ended"]
            /\ UNCHANGED yielded
    /\ UNCHANGED <<image, pc, last>>

NextRows ==
    \/ \E r \in IterRects, m \in BOOLEAN : RowsBegin(r, m)
    \/ RowsNext

SpecRows == InitRows /\ [][NextRows]_vars

\* ---------------------------------------------------------------- one pixel

Channels == {<<0, 0, 0>>, <<255, 255, 255>>, <<16, 32, 48>>, <<255, 0, 128>>, <<1, 254, 127>>}

OldPixels == {Color(a, t[1], t[2], t[3]) : a \in {0, 77, 255}, t \in Channels}

NewPixels == {Color(a, t[1], t[2], t[3]) : a \in 0..255, t \in Channels}

UnitRect == Rect(0, 0, 1, 1)

InitPixel ==
    /\ \E old \in OldPixels : image = Image_from_data(1, 1, <<old>>)
    /\ pc = "constructed"
    /\ last = Call("Image::from_data", NoRect, NoRoi, <<>>, 0)
    /\ iter = NoIter
    /\ yielded = <<>>

NextPixel ==
    /\ pc = "constructed"
    /\ \E new \in NewPixels :
        Blend(UnitRect, Roi(ImageRef_from_data(1, 1, <<new>>), UnitRect))

SpecPixel == InitPixel /\ [][NextPixel]_vars

\* ---------------------------------------------------------------- properties

\* position, in the destination's and in the source's pixel array, of the
\* pixel at row r, column c of the last call's ROIs
DstIdx(r, c) == (last.rect.top + r) * image.w + last.rect.left + c + 1
SrcIdx(r, c) ==
    (last.other.rect.top + r) * last.other.w + last.other.rect.left + c + 1

OverlapRows == 0..(Min(last.rect.height, last.other.rect.height) - 1)
OverlapCols == 0..(Min(last.rect.width, last.other.rect.width) - 1)

\* the pixels of an ROI: those of its rows that lie in its array
RoiPixels(roi) ==
    {roi.data[j] : j \in
        {(roi.rect.top + r) * roi.w + roi.rect.left + c + 1 :
            r \in 0..(roi.rect.height - 1), c \in 0..(roi.rect.width - 1)}
        \cap DOMAIN roi.data}

\* every row slice of the rect is in range of an array of len pixels
RowsInRange(rect, w, len) ==
    \A r \in 0..(rect.height - 1) :
        /\ (rect.top + r) * w + rect.left >= 0
        /\ (rect.top + r) * w + rect.left + rect.width <= len

OverlapIsSource ==
    \A r \in OverlapRows, c \in OverlapCols :
        image.data[DstIdx(r, c)] = last.other.data[SrcIdx(r, c)]

\* C1, as stated: after a blend whose source pixels all have alpha 0xFF, every
\* destination pixel of the overlap equals the source pixel of the same row
\* and column, for any destination ROI.
BlendOpaqueAnyRoi ==
    (last.op = "blend" /\ pc = "done" /\ \A p \in RoiPixels(last.other) : p.a = 255)
        => OverlapIsSource

\* C1, amended: the same, for a destination ROI whose rect is no wider than
\* the buffer's stride, as every rect inside the buffer is.
BlendOpaqueReplaces ==
    (/\ last.op = "blend"
     /\ pc = "done"
     /\ \A p \in RoiPixels(last.other) : p.a = 255
     /\ last.rect.width <= image.w)
        => OverlapIsSource

BlendOpaqueWitness ==
    /\ last.op = "blend"
    /\ pc = "done"
    /\ \A p \in RoiPixels(last.other) : p.a = 255
    /\ last.rect = Rect(0, 0, 2, 2)
    /\ image.w = 2
    /\ last.other.rect.width = 2
    /\ last.other.rect.height = 2
    /\ image.data # last.pre

\* C2: a blend whose source pixels all have alpha 0x00 leaves the whole
\* destination pixel array as it was before the call.
BlendClearNoOp ==
    (last.op = "blend" /\ \A p \in RoiPixels(last.other) : p.a = 0)
        => image.data = last.pre

BlendClearWitness ==
    /\ last.op = "blend"
    /\ pc = "done"
    /\ RoiPixels(last.other) # {}
    /\ \A p \in RoiPixels(last.other) : p.a = 0
    /\ Cardinality(OverlapRows) >= 2
    /\ Cardinality(OverlapCols) >= 2
    /\ RowsInRange(last.rect, image.w, Len(image.data))

\* C5, as stated: for ROIs of any heights and widths blit copies, for each row
\* of the overlap, the first min(width) pixels of the source row into the
\* destination row, leaves every other pixel of the destination array as it
\* was, and does not fail because the sizes differ.
BlitCopiesOverlap ==
    /\ Len(image.data) = Len(last.pre)
    /\ \A j \in 1..Len(image.data) :
        IF \E r \in OverlapRows, c \in OverlapCols : j = DstIdx(r, c)
        THEN \A r \in OverlapRows, c \in OverlapCols :
                (j = DstIdx(r, c)) => image.data[j] = last.other.data[SrcIdx(r, c)]
        ELSE image.data[j] = last.pre[j]

BlitNeverFailsOnSize ==
    (/\ RowsInRange(last.rect, image.w, Len(image.data))
     /\ RowsInRange(last.other.rect, last.other.w, Len(last.other.data)))
        => pc = "done"

BlitTruncatesAnyRoi ==
    (last.op = "blit")
        => /\ BlitNeverFailsOnSize
           /\ (pc = "done" => BlitCopiesOverlap)

\* C5, amended: the same, for a destination ROI whose rect is no wider than
\* the buffer's stride, as every rect inside the buffer is.
BlitTruncates ==
    (last.op = "blit")
        => /\ BlitNeverFailsOnSize
           /\ ((pc = "done" /\ last.rect.width <= image.w) => BlitCopiesOverlap)

BlitTruncatesWitness ==
    /\ last.op = "blit"
    /\ pc = "done"
    /\ image.w = 2
    /\ image.h = 2
    /\ last.rect = Rect(0, 0, 2, 2)
    /\ last.other.rect = Rect(1, 0, 1, 1)
    /\ image.data[1] # last.pre[1]
    /\ image.data[2] = last.pre[2]

\* C6: blit with one ROI of one buffer as destination and source leaves the
\* buffer's pixels as they were.
BlitSelfUnchanged ==
    (last.op = "blit_aliased" /\ last.other.rect = last.rect)
        => image.data = last.pre

BlitSelfWitness ==
    /\ last.op = "blit_aliased"
    /\ last.other.rect = last.rect
    /\ pc = "done"
    /\ last.rect = Rect(1, 0, 1, 2)
    /\ image.w = 2
    /\ image.h = 2
    /\ image.data[2] # image.data[1]

\* C7: data().length == width() * height() for Image and ImageRef, and
\* data().length >= width() * height() for ImageAligned, for every buffer any
\* constructor built and after any roi, blend or blit on it.
DimensionInvariant ==
    /\ image.kind \in {"Image", "ImageRef"} => Len(image.data) = image.w * image.h
    /\ image.kind = "ImageAligned" => Len(image.data) >= image.w * image.h

\* C8, as stated: for any alignment A > 0 the pixel array ImageAligned::new
\* exposes has a byte length that is a multiple of A, and all its pixels are zero.
AlignedSizeAndZero ==
    /\ (Len(image.data) * SizeOfColor) % last.align = 0
    /\ \A j \in 1..Len(image.data) : image.data[j] = Zero

AlignedAnyAlignment ==
    (last.op = "ImageAligned::new" /\ pc = "constructed") => AlignedSizeAndZero

\* C8, amended: the same, for an alignment that is a power of two.
AlignedPowerOfTwo ==
    (/\ last.op = "ImageAligned::new"
     /\ pc = "constructed"
     /\ \E k \in 0..30 : last.align = 2 ^ k)
        => AlignedSizeAndZero

AlignedWitness ==
    /\ last.op = "ImageAligned::new"
    /\ pc = "constructed"
    /\ last.align = 16
    /\ image.w * image.h = 1
    /\ Len(image.data) = 4

\* C3: for a source alpha a in 1..254 blend sets the destination's red, green
\* and blue to ((new * a) >> 8) + ((old * (255 - a)) >> 8); 0xFF102030 under
\* 0x80FFFFFF gets red 134, green 142, blue 150.
BlendPartialArithmetic ==
    (last.op = "blend" /\ last.other.data[1].a \in 1..254) =>
        LET old == last.pre[1]
            new == last.other.data[1]
            a == new.a
            res == image.data[1]
        IN  /\ Red(res) = (Red(new) * a) \div 256 + (Red(old) * (255 - a)) \div 256
            /\ Green(res) = (Green(new) * a) \div 256 + (Green(old) * (255 - a)) \div 256
            /\ Blue(res) = (Blue(new) * a) \div 256 + (Blue(old) * (255 - a)) \div 256
            /\ (old = Color(255, 16, 32, 48) /\ new = Color(128, 255, 255, 255))
                => (Red(res) = 134 /\ Green(res) = 142 /\ Blue(res) = 150)

BlendPartialWitness ==
    /\ last.op = "blend"
    /\ pc = "done"
    /\ last.pre = <<Color(255, 16, 32, 48)>>
    /\ last.other.data = <<Color(128, 255, 255, 255)>>
    /\ image.data[1].rgb = 134 * 65536 + 142 * 256 + 150

\* C10: for a source alpha in 1..254 each channel sum is at most 254, the
\* packed addition equals the channel-wise result, and bits 24..31 of the
\* written pixel are 0 whatever the destination's alpha was.
BlendNoCarry ==
    (last.op = "blend" /\ last.other.data[1].a \in 1..254) =>
        LET old == last.pre[1]
            new == last.other.data[1]
            a == new.a
            res == image.data[1]
            s_r == (Red(new) * a) \div 256 + (Red(old) * (255 - a)) \div 256
            s_g == (Green(new) * a) \div 256 + (Green(old) * (255 - a)) \div 256
            s_b == (Blue(new) * a) \div 256 + (Blue(old) * (255 - a)) \div 256
        IN  /\ s_r <= 254 /\ s_g <= 254 /\ s_b <= 254
            /\ res.rgb = s_r * 65536 + s_g * 256 + s_b
            /\ res.a = 0

BlendNoCarryWitness ==
    /\ last.op = "blend"
    /\ last.pre = <<Color(255, 255, 255, 255)>>
    /\ last.other.data = <<Color(254, 255, 255, 255)>>
    /\ image.data = <<Color(0, 253, 253, 253)>>

RectInBuffer(rect, w, h) ==
    /\ rect.top >= 0
    /\ rect.left >= 0
    /\ rect.top + rect.height <= h
    /\ rect.left + rect.width <= w

RowViewsInsideRect ==
    (iter.state # "idle" /\ RectInBuffer(iter.rect, image.w, image.h)) =>
        /\ \A k \in 1..Len(yielded) :
            \A j \in yielded[k].start..(yielded[k].end - 1) :
                /\ 0 <= j
                /\ j < image.w * image.h
                /\ j \div image.w >= iter.rect.top
                /\ j \div image.w < iter.rect.top + iter.rect.height
                /\ j % image.w >= iter.rect.left
                /\ j % image.w < iter.rect.left + iter.rect.width
        /\ \A k1 \in 1..Len(yielded), k2 \in 1..Len(yielded) :
            (k1 # k2) =>
                (yielded[k1].start..(yielded[k1].end - 1))
                    \cap (yielded[k2].start..(yielded[k2].end - 1)) = {}

RowViewsWitness ==
    /\ iter.state = "ended"
    /\ RectInBuffer(iter.rect, image.w, image.h)
    /\ ~iter.mutable
    /\ iter.rect = Rect(0, 0, 1, 2)
    /\ image.kind = "ImageAligned"
    /\ Len(image.data) > image.w * image.h
    /\ Len(yielded) = 2
    /\ yielded[2].start = 1

====
